---------------------------- MODULE Spec2Model ----------------------------
(***************************************************************************)
(* Model of the Biom class of biojs-io-biom (src/src/biojs-io-biom.js):    *)
(* the constructor, the thirteen setters with their validation, and the    *)
(* thirteen getters.  One Biom object is constructed from a configuration  *)
(* object and is then assigned to, field by field (Spec).  SpecOld is the  *)
(* same caller with the older version of the class that the file also      *)
(* holds; SpecShared is a caller with two tables that changes in place an  *)
(* array a getter returned.                                                *)
(***************************************************************************)
EXTENDS Integers, Sequences, FiniteSets, TLC

(***************************************************************************)
(* Bounds of the model.                                                    *)
(***************************************************************************)
\* at most this many properties are present in the constructor's argument
MaxSupplied == 2
\* at most this many assignments follow the construction
MaxAssigns == 1
\* the clock read by "new Date()" shows a millisecond in 0 .. MaxClock
MaxClock == 1
\* with two tables: at most this many properties in each constructor's argument
MaxSharedSupplied == 1
\* with two tables: at most this many elements are pushed onto arrays
MaxPushes == 1

(***************************************************************************)
(* JavaScript values.  A string is [k, s], a number is the fraction        *)
(* num/den (den > 0), an array is a reference to the array object, whose   *)
(* elements, which a push changes in place, are in the heap.               *)
(***************************************************************************)
Null == [k |-> "null"]
Undefined == [k |-> "undefined"]
Str(s) == [k |-> "string", s |-> s]
Num(n, d) == [k |-> "number", num |-> n, den |-> d]
Integer(n) == Num(n, 1)
Arr(r) == [k |-> "array", ref |-> r]

\* the array objects that exist: the four array literals of DEFAULT_BIOM
\* and the arrays the caller holds
DefaultRefs ==
    { "DEFAULT_BIOM.rows", "DEFAULT_BIOM.columns", "DEFAULT_BIOM.shape",
      "DEFAULT_BIOM.data" }

Refs ==
    DefaultRefs \cup { "[2,3]", "[2,-1]", "[3/2,3]", "[2]", "[[0,1,5]]", "[0,1,5]" }

\* the elements an array object is created with
ArrayLiteral(ref) ==
    CASE ref = "DEFAULT_BIOM.rows"    -> << >>
      [] ref = "DEFAULT_BIOM.columns" -> << >>
      [] ref = "DEFAULT_BIOM.shape"   -> << Integer(0), Integer(0) >>
      [] ref = "DEFAULT_BIOM.data"    -> << >>
      [] ref = "[2,3]"                -> << Integer(2), Integer(3) >>
      [] ref = "[2,-1]"               -> << Integer(2), Integer(-1) >>
      [] ref = "[3/2,3]"              -> << Num(3, 2), Integer(3) >>
      [] ref = "[2]"                  -> << Integer(2) >>
      [] ref = "[[0,1,5]]"            -> << Arr("[0,1,5]") >>
      [] ref = "[0,1,5]"              -> << Integer(0), Integer(1), Integer(5) >>

\* the elements each array object holds now
VARIABLE heap

Elements(ref) == heap[ref]

\* typeof v
TypeOf(v) ==
    CASE v.k = "string"    -> "string"
      [] v.k = "number"    -> "number"
      [] v.k = "undefined" -> "undefined"
      [] v.k = "null"      -> "object"
      [] v.k = "array"     -> "object"

\* Object.prototype.toString.call(v)
ToStringCall(v) ==
    CASE v.k = "string"    -> "[object String]"
      [] v.k = "number"    -> "[object Number]"
      [] v.k = "undefined" -> "[object Undefined]"
      [] v.k = "null"      -> "[object Null]"
      [] v.k = "array"     -> "[object Array]"

\* Number.isInteger(v): no conversion, false for whatever is not a number
NumberIsInteger(v) == v.k = "number" /\ v.num % v.den = 0

\* v < 0, for a number v
LessThanZero(v) == v.k = "number" /\ v.num < 0

\* array.length and array[i] (i counted from 0)
Length(a) == Len(Elements(a.ref))
At(a, i) == Elements(a.ref)[i + 1]

\* array.indexOf(v) === -1, for an array of strings
IndexOfIsMinusOne(cv, v) == \A i \in 1..Len(cv) : cv[i] # v

(***************************************************************************)
(* The module's constants.                                                 *)
(***************************************************************************)
VERSION == "0.1.0"

DEFAULT_BIOM ==
    [ id                  |-> Null,
      format              |-> Str("Biological Observation Matrix 1.0.0"),
      format_url          |-> Str("http://biom-format.org"),
      type                |-> Str("OTU table"),
      generated_by        |-> Str("biojs-io-biom v" \o VERSION),
      date                |-> Null,
      rows                |-> Arr("DEFAULT_BIOM.rows"),
      columns             |-> Arr("DEFAULT_BIOM.columns"),
      matrix_type         |-> Str("sparse"),
      matrix_element_type |-> Str("float"),
      shape               |-> Arr("DEFAULT_BIOM.shape"),
      data                |-> Arr("DEFAULT_BIOM.data"),
      comment             |-> Null ]

TYPE_CV ==
    << Str("OTU table"), Str("Pathway table"), Str("Function table"),
       Str("Ortholog table"), Str("Gene table"), Str("Metabolite table"),
       Str("Taxon table") >>

MATRIX_TYPE_CV == << Str("sparse"), Str("dense") >>

MATRIX_ELEMENT_TYPE_CV == << Str("int"), Str("float"), Str("unicode") >>

(***************************************************************************)
(* Errors.  A call returns the object as the call left it and what it      *)
(* threw (NoError when it returned normally).                              *)
(***************************************************************************)
NoError == [name |-> "none", message |-> ""]
TypeError(m) == [name |-> "TypeError", message |-> m]
Error(m) == [name |-> "Error", message |-> m]

Return(this) == [obj |-> this, thrown |-> NoError]
Throw(this, e) == [obj |-> this, thrown |-> e]

(***************************************************************************)
(* The setters.                                                            *)
(***************************************************************************)
set_id(this, id) ==
    IF id # Null /\ TypeOf(id) # "string"
    THEN Throw(this, TypeError("id must be string or null"))
    ELSE Return([this EXCEPT !["_id"] = id])

\* set_format with the null that set_id and set_comment let through
set_format_or_null(this, format) ==
    IF format # Null /\ TypeOf(format) # "string"
    THEN Throw(this, TypeError("format must be string"))
    ELSE Return([this EXCEPT !["_format"] = format])

set_format(this, format) ==
    IF TypeOf(format) # "string"
    THEN Throw(this, TypeError("format must be string"))
    ELSE Return([this EXCEPT !["_format"] = format])

set_format_url(this, format_url) ==
    IF TypeOf(format_url) # "string"
    THEN Throw(this, TypeError("format_url must be string (representing a static URL)"))
    ELSE Return([this EXCEPT !["_format_url"] = format_url])

\* set_type with the assignment moved above the checks
set_type_assign_first(this, type) ==
    IF TypeOf(type) # "string"
    THEN Throw([this EXCEPT !["_type"] = type],
               TypeError("type must be string (part of the controlled vocabulary)"))
    ELSE IF IndexOfIsMinusOne(TYPE_CV, type)
    THEN Throw([this EXCEPT !["_type"] = type],
               Error("type must be part of the controlled vocabulary"))
    ELSE Return([this EXCEPT !["_type"] = type])

set_type(this, type) ==
    IF TypeOf(type) # "string"
    THEN Throw(this, TypeError("type must be string (part of the controlled vocabulary)"))
    ELSE IF IndexOfIsMinusOne(TYPE_CV, type)
    THEN Throw(this, Error("type must be part of the controlled vocabulary"))
    ELSE Return([this EXCEPT !["_type"] = type])

set_generated_by(this, generated_by) ==
    IF TypeOf(generated_by) # "string"
    THEN Throw(this, TypeError("generated_by must be string"))
    ELSE Return([this EXCEPT !["_generated_by"] = generated_by])

\* set_date with the null that set_id and set_comment let through
set_date_or_null(this, date) ==
    IF date # Null /\ TypeOf(date) # "string"
    THEN Throw(this, TypeError("date must be string (ISO 8601 format)"))
    ELSE Return([this EXCEPT !["_date"] = date])

set_date(this, date) ==
    IF TypeOf(date) # "string"
    THEN Throw(this, TypeError("date must be string (ISO 8601 format)"))
    ELSE Return([this EXCEPT !["_date"] = date])

\* set_rows with a rule across fields: as many rows as shape[0] says
set_rows_as_many_as_shape(this, rows) ==
    IF ToStringCall(rows) # "[object Array]"
    THEN Throw(this, TypeError("rows must be an Array"))
    ELSE IF this["_shape"] # Undefined /\ Integer(Length(rows)) # At(this["_shape"], 0)
    THEN Throw(this, Error("rows must be as many as shape[0]"))
    ELSE Return([this EXCEPT !["_rows"] = rows])

set_rows(this, rows) ==
    IF ToStringCall(rows) # "[object Array]"
    THEN Throw(this, TypeError("rows must be an Array"))
    ELSE Return([this EXCEPT !["_rows"] = rows])

\* set_columns storing into the field of set_rows
set_columns_into_rows(this, columns) ==
    IF ToStringCall(columns) # "[object Array]"
    THEN Throw(this, TypeError("columns must be an Array"))
    ELSE Return([this EXCEPT !["_rows"] = columns])

set_columns(this, columns) ==
    IF ToStringCall(columns) # "[object Array]"
    THEN Throw(this, TypeError("columns must be an Array"))
    ELSE Return([this EXCEPT !["_columns"] = columns])

\* set_matrix_type without the vocabulary check
set_matrix_type_any_string(this, matrix_type) ==
    IF TypeOf(matrix_type) # "string"
    THEN Throw(this, TypeError("matrix_type must be string (part of the controlled vocabulary: \"dense\" or \"sparse\")"))
    ELSE Return([this EXCEPT !["_matrix_type"] = matrix_type])

set_matrix_type(this, matrix_type) ==
    IF TypeOf(matrix_type) # "string"
    THEN Throw(this, TypeError("matrix_type must be string (part of the controlled vocabulary: \"dense\" or \"sparse\")"))
    ELSE IF IndexOfIsMinusOne(MATRIX_TYPE_CV, matrix_type)
    THEN Throw(this, Error("matrix_type must be part of the controlled vocabulary: \"dense\" or \"sparse\""))
    ELSE Return([this EXCEPT !["_matrix_type"] = matrix_type])

\* set_matrix_element_type with the vocabulary check before the type check
set_matrix_element_type_vocabulary_first(this, matrix_element_type) ==
    IF IndexOfIsMinusOne(MATRIX_ELEMENT_TYPE_CV, matrix_element_type)
    THEN Throw(this, Error("matrix_element_type must be part of the controlled vocabulary: \"int\", \"float\" or \"unicode\""))
    ELSE IF TypeOf(matrix_element_type) # "string"
    THEN Throw(this, TypeError("matrix_element_type must be string (part of the controlled vocabulary: \"int\", \"float\" or \"unicode\")"))
    ELSE Return([this EXCEPT !["_matrix_element_type"] = matrix_element_type])

set_matrix_element_type(this, matrix_element_type) ==
    IF TypeOf(matrix_element_type) # "string"
    THEN Throw(this, TypeError("matrix_element_type must be string (part of the controlled vocabulary: \"int\", \"float\" or \"unicode\")"))
    ELSE IF IndexOfIsMinusOne(MATRIX_ELEMENT_TYPE_CV, matrix_element_type)
    THEN Throw(this, Error("matrix_element_type must be part of the controlled vocabulary: \"int\", \"float\" or \"unicode\""))
    ELSE Return([this EXCEPT !["_matrix_element_type"] = matrix_element_type])

\* set_shape with "shape.length < 2" for "shape.length !== 2"
set_shape_at_least_two(this, shape) ==
    IF ToStringCall(shape) # "[object Array]"
    THEN Throw(this, TypeError("shape must be an Array containing exactly two non-negative integers"))
    ELSE IF Length(shape) < 2
    THEN Throw(this, Error("shape does not contain exactly two elements"))
    ELSE IF \/ ~NumberIsInteger(At(shape, 0))
            \/ LessThanZero(At(shape, 0))
            \/ ~NumberIsInteger(At(shape, 1))
            \/ LessThanZero(At(shape, 1))
    THEN Throw(this, Error("shape does not contain non-negative integers"))
    ELSE Return([this EXCEPT !["_shape"] = shape])

set_shape(this, shape) ==
    IF ToStringCall(shape) # "[object Array]"
    THEN Throw(this, TypeError("shape must be an Array containing exactly two non-negative integers"))
    ELSE IF Length(shape) # 2
    THEN Throw(this, Error("shape does not contain exactly two elements"))
    ELSE IF \/ ~NumberIsInteger(At(shape, 0))
            \/ LessThanZero(At(shape, 0))
            \/ ~NumberIsInteger(At(shape, 1))
            \/ LessThanZero(At(shape, 1))
    THEN Throw(this, Error("shape does not contain non-negative integers"))
    ELSE Return([this EXCEPT !["_shape"] = shape])

set_data(this, data) ==
    IF ToStringCall(data) # "[object Array]"
    THEN Throw(this, TypeError("data must be an Array"))
    ELSE Return([this EXCEPT !["_data"] = data])

set_comment(this, comment) ==
    IF comment # Null /\ TypeOf(comment) # "string"
    THEN Throw(this, TypeError("comment must be string or null"))
    ELSE Return([this EXCEPT !["_comment"] = comment])

(***************************************************************************)
(* The getters.                                                            *)
(***************************************************************************)
get_id(this) == this["_id"]
get_format(this) == this["_format"]
get_format_url(this) == this["_format_url"]
get_type(this) == this["_type"]
get_generated_by(this) == this["_generated_by"]
get_date(this) == this["_date"]
get_rows(this) == this["_rows"]
get_columns(this) == this["_columns"]
get_matrix_type(this) == this["_matrix_type"]
get_matrix_element_type(this) == this["_matrix_element_type"]
get_shape(this) == this["_shape"]
get_data(this) == this["_data"]
get_comment(this) == this["_comment"]

(***************************************************************************)
(* new Date().toISOString(), for a clock that shows ms milliseconds after  *)
(* 1970-01-01T00:00:00.000Z, within the first minute.                      *)
(***************************************************************************)
Digit(n) ==
    CASE n = 0 -> "0" [] n = 1 -> "1" [] n = 2 -> "2" [] n = 3 -> "3"
      [] n = 4 -> "4" [] n = 5 -> "5" [] n = 6 -> "6" [] n = 7 -> "7"
      [] n = 8 -> "8" [] n = 9 -> "9"

toISOString(ms) ==
    LET sec  == (ms \div 1000) % 60
        frac == ms % 1000
    IN  "1970-01-01T00:00:"
            \o Digit(sec \div 10) \o Digit(sec % 10) \o "."
            \o Digit(frac \div 100) \o Digit((frac \div 10) % 10) \o Digit(frac % 10)
            \o "Z"

(***************************************************************************)
(* The constructor.                                                        *)
(***************************************************************************)
\* the names of the options, in the order in which the constructor assigns
Order ==
    << "id", "format", "format_url", "type", "generated_by", "date", "rows",
       "columns", "matrix_type", "matrix_element_type", "shape", "data",
       "comment" >>

Fields == { Order[i] : i \in 1..Len(Order) }

\* the object before the constructor has assigned anything
NewObject ==
    [ f \in { "_" \o g : g \in Fields } |-> Undefined ]

\* a default taken with "given || dflt": null and "" give way to it too
Param_falsy(given, dflt) ==
    IF given \in { Undefined, Null, Str("") } THEN dflt ELSE given

\* a destructured parameter with a default: "name: _name = dflt"
Param(given, dflt) == IF given = Undefined THEN dflt ELSE given

\* the date stamped with "if(!_date)": the empty text is stamped over too
date_or_now_falsy(_date, now) ==
    IF _date \in { Null, Str("") } THEN Str(toISOString(now)) ELSE _date

\* "if(_date === null){ _date = new Date().toISOString(); }"
date_or_now(_date, now) == IF _date = Null THEN Str(toISOString(now)) ELSE _date

\* "this.f = v": the call of the setter of the property named f
Set(f, this, v) ==
    CASE f = "id"                  -> set_id(this, v)
      [] f = "format"              -> set_format(this, v)
      [] f = "format_url"          -> set_format_url(this, v)
      [] f = "type"                -> set_type(this, v)
      [] f = "generated_by"        -> set_generated_by(this, v)
      [] f = "date"                -> set_date(this, v)
      [] f = "rows"                -> set_rows(this, v)
      [] f = "columns"             -> set_columns(this, v)
      [] f = "matrix_type"         -> set_matrix_type(this, v)
      [] f = "matrix_element_type" -> set_matrix_element_type(this, v)
      [] f = "shape"               -> set_shape(this, v)
      [] f = "data"                -> set_data(this, v)
      [] f = "comment"             -> set_comment(this, v)

\* the next statement, "this.f = v", runs only when none before it has thrown
Then(r, f, v) == IF r.thrown # NoError THEN r ELSE Set(f, r.obj, v)

constructor(cfg, now) ==
    LET _id                  == Param(cfg.id, Null)
        _format              == Param(cfg.format, DEFAULT_BIOM.format)
        _format_url          == Param(cfg.format_url, DEFAULT_BIOM.format_url)
        _type                == Param(cfg.type, DEFAULT_BIOM.type)
        _generated_by        == Param(cfg.generated_by, DEFAULT_BIOM.generated_by)
        _date0               == Param(cfg.date, Null)
        _rows                == Param(cfg.rows, DEFAULT_BIOM.rows)
        _columns             == Param(cfg.columns, DEFAULT_BIOM.columns)
        _matrix_type         == Param(cfg.matrix_type, DEFAULT_BIOM.matrix_type)
        _matrix_element_type == Param(cfg.matrix_element_type,
                                      DEFAULT_BIOM.matrix_element_type)
        _shape               == Param(cfg.shape, DEFAULT_BIOM.shape)
        _data                == Param(cfg.data, DEFAULT_BIOM.data)
        _comment             == Param(cfg.comment, DEFAULT_BIOM.comment)
        _date                == date_or_now(_date0, now)
        r1  == Set("id", NewObject, _id)
        r2  == Then(r1, "format", _format)
        r3  == Then(r2, "format_url", _format_url)
        r4  == Then(r3, "type", _type)
        r5  == Then(r4, "generated_by", _generated_by)
        r6  == Then(r5, "date", _date)
        r7  == Then(r6, "rows", _rows)
        r8  == Then(r7, "columns", _columns)
        r9  == Then(r8, "matrix_type", _matrix_type)
        r10 == Then(r9, "matrix_element_type", _matrix_element_type)
        r11 == Then(r10, "shape", _shape)
        r12 == Then(r11, "data", _data)
    IN  Then(r12, "comment", _comment)

(***************************************************************************)
(* The older version of the class, which the file holds after the newer    *)
(* one: its constructor stores its parameters in the fields directly, it   *)
(* has no comment, and id is the only property with a setter.              *)
(***************************************************************************)
DEFAULT_BIOM_old ==
    [ id                  |-> Null,
      format              |-> Str("Biological Observation Matrix 1.0.0"),
      format_url          |-> Str("http://biom-format.org"),
      type                |-> Str("OTU table"),
      generated_by        |-> Str("biojs-io-biom v" \o VERSION),
      date                |-> Null,
      rows                |-> Arr("DEFAULT_BIOM.rows"),
      columns             |-> Arr("DEFAULT_BIOM.columns"),
      matrix_type         |-> Str("sparse"),
      matrix_element_type |-> Str("float"),
      shape               |-> Arr("DEFAULT_BIOM.shape"),
      data                |-> Arr("DEFAULT_BIOM.data") ]

\* Date.now(): the clock, as a number of milliseconds
DateNow(now) == Integer(now)

\* the older constructor: no setter runs, so nothing is checked and nothing
\* is thrown; a comment in cfg is no parameter of it and is ignored
constructor_old(cfg, now) ==
    Return(
      [ _id                  |-> Param(cfg.id, Null),
        _format              |-> Param(cfg.format, DEFAULT_BIOM_old.format),
        _format_url          |-> Param(cfg.format_url, DEFAULT_BIOM_old.format_url),
        _type                |-> Param(cfg.type, DEFAULT_BIOM_old.type),
        _generated_by        |-> Param(cfg.generated_by, DEFAULT_BIOM_old.generated_by),
        _date                |-> Param(cfg.date, DateNow(now)),
        _rows                |-> Param(cfg.rows, DEFAULT_BIOM_old.rows),
        _columns             |-> Param(cfg.columns, DEFAULT_BIOM_old.columns),
        _matrix_type         |-> Param(cfg.matrix_type, DEFAULT_BIOM_old.matrix_type),
        _matrix_element_type |-> Param(cfg.matrix_element_type,
                                       DEFAULT_BIOM_old.matrix_element_type),
        _shape               |-> Param(cfg.shape, DEFAULT_BIOM_old.shape),
        _data                |-> Param(cfg.data, DEFAULT_BIOM_old.data) ])

set_id_old(this, id) ==
    IF id # Null /\ TypeOf(id) # "string"
    THEN Throw(this, TypeError("id must be string or null"))
    ELSE Return([this EXCEPT !["_id"] = id])

(***************************************************************************)
(* The state: one caller that constructs a Biom and assigns to its fields. *)
(***************************************************************************)
VARIABLES
    pc,      \* "start", "built" (new Biom(..) returned), "failed" (it threw)
    biom,    \* the object: its fields _id .. _comment
    thrown,  \* what the last call threw, NoError if it returned
    last,    \* the last call: the constructor or a setter, with its argument
    before,  \* the object as it was when the last call began
    nops,    \* the number of assignments (or pushes) made since the construction
    clock,   \* the millisecond the system clock shows
    other    \* a second table of the caller: how its construction ended
             \* (pc), the object (obj), the argument it was constructed
             \* from (cfg)

vars == << pc, biom, thrown, last, before, nops, clock, other, heap >>

\* the values a caller passes
Values ==
    { Null, Undefined, Str(""), Str("Gene table"), Str("dense"), Str("int"),
      Integer(42), Arr("[2,3]"), Arr("[2,-1]"), Arr("[3/2,3]"), Arr("[2]"),
      Arr("[0,1,5]"), Arr("[[0,1,5]]") }

\* the argument of the constructor: a property that is missing reads as
\* undefined, as one that is set to undefined does
NoConfig == [ f \in Fields |-> Undefined ]

ConfigsUpTo(n) ==
    { [ f \in Fields |-> IF f \in DOMAIN g THEN g[f] ELSE Undefined ] :
        g \in UNION { [ S -> Values \ {Undefined} ] :
                        S \in { T \in SUBSET Fields : Cardinality(T) <= n } } }

Configs == ConfigsUpTo(MaxSupplied)

Init ==
    /\ pc = "start"
    /\ biom = NewObject
    /\ thrown = NoError
    /\ last = [ op |-> "none", field |-> "", value |-> Undefined, cfg |-> NoConfig ]
    /\ before = NewObject
    /\ nops = 0
    /\ clock \in 0..MaxClock
    /\ other = [ pc |-> "none", obj |-> NewObject, cfg |-> NoConfig ]
    /\ heap = [ ref \in Refs |-> ArrayLiteral(ref) ]

\* new Biom(cfg): when the constructor throws, the caller gets no object
Construct ==
    /\ pc = "start"
    /\ \E cfg \in Configs :
         LET r == constructor(cfg, clock)
         IN  /\ pc' = IF r.thrown = NoError THEN "built" ELSE "failed"
             /\ biom' = IF r.thrown = NoError THEN r.obj ELSE NewObject
             /\ thrown' = r.thrown
             /\ last' = [ op |-> "new", field |-> "", value |-> Undefined, cfg |-> cfg ]
    /\ before' = biom
    /\ nops' = 0
    /\ UNCHANGED << clock, other, heap >>

\* biom.field = v: the setter runs on the object, and returns or throws
Assign(field, v, r) ==
    /\ biom' = r.obj
    /\ thrown' = r.thrown
    /\ last' = [ op |-> "set", field |-> field, value |-> v, cfg |-> NoConfig ]
    /\ before' = biom
    /\ nops' = nops + 1
    /\ UNCHANGED << pc, clock, other, heap >>

CanAssign == pc = "built" /\ nops < MaxAssigns

SetId == CanAssign /\ \E v \in Values : Assign("id", v, set_id(biom, v))
SetFormat == CanAssign /\ \E v \in Values : Assign("format", v, set_format(biom, v))
SetFormatUrl == CanAssign /\ \E v \in Values : Assign("format_url", v, set_format_url(biom, v))
SetType == CanAssign /\ \E v \in Values : Assign("type", v, set_type(biom, v))
SetGeneratedBy == CanAssign /\ \E v \in Values : Assign("generated_by", v, set_generated_by(biom, v))
SetDate == CanAssign /\ \E v \in Values : Assign("date", v, set_date(biom, v))
SetRows == CanAssign /\ \E v \in Values : Assign("rows", v, set_rows(biom, v))
SetColumns == CanAssign /\ \E v \in Values : Assign("columns", v, set_columns(biom, v))
SetMatrixType == CanAssign /\ \E v \in Values : Assign("matrix_type", v, set_matrix_type(biom, v))
SetMatrixElementType == CanAssign /\ \E v \in Values : Assign("matrix_element_type", v, set_matrix_element_type(biom, v))
SetShape == CanAssign /\ \E v \in Values : Assign("shape", v, set_shape(biom, v))
SetData == CanAssign /\ \E v \in Values : Assign("data", v, set_data(biom, v))
SetComment == CanAssign /\ \E v \in Values : Assign("comment", v, set_comment(biom, v))

Next ==
    \/ Construct
    \/ SetId \/ SetFormat \/ SetFormatUrl \/ SetType \/ SetGeneratedBy
    \/ SetDate \/ SetRows \/ SetColumns \/ SetMatrixType
    \/ SetMatrixElementType \/ SetShape \/ SetData \/ SetComment

Spec == Init /\ [][Next]_vars

(***************************************************************************)
(* The same caller with the older version of the class.                    *)
(***************************************************************************)
ConstructOld ==
    /\ pc = "start"
    /\ \E cfg \in Configs :
         LET r == constructor_old(cfg, clock)
         IN  /\ pc' = IF r.thrown = NoError THEN "built" ELSE "failed"
             /\ biom' = IF r.thrown = NoError THEN r.obj ELSE NewObject
             /\ thrown' = r.thrown
             /\ last' = [ op |-> "new", field |-> "", value |-> Undefined, cfg |-> cfg ]
    /\ before' = biom
    /\ nops' = 0
    /\ UNCHANGED << clock, other, heap >>

SetIdOld == CanAssign /\ \E v \in Values : Assign("id", v, set_id_old(biom, v))

NextOld == ConstructOld \/ SetIdOld

SpecOld == Init /\ [][NextOld]_vars

\* the read accessor of the option named f
Get(this, f) ==
    CASE f = "id"                  -> get_id(this)
      [] f = "format"              -> get_format(this)
      [] f = "format_url"          -> get_format_url(this)
      [] f = "type"                -> get_type(this)
      [] f = "generated_by"        -> get_generated_by(this)
      [] f = "date"                -> get_date(this)
      [] f = "rows"                -> get_rows(this)
      [] f = "columns"             -> get_columns(this)
      [] f = "matrix_type"         -> get_matrix_type(this)
      [] f = "matrix_element_type" -> get_matrix_element_type(this)
      [] f = "shape"               -> get_shape(this)
      [] f = "data"                -> get_data(this)
      [] f = "comment"             -> get_comment(this)

(***************************************************************************)
(* A caller with two tables, which changes in place an array that a read   *)
(* accessor of the first table returned.                                   *)
(***************************************************************************)
SharedConfigs == ConfigsUpTo(MaxSharedSupplied)

\* the properties that hold arrays
ArrayFields == { "rows", "columns", "shape", "data" }

\* biom = new Biom(cfg)
ConstructFirst ==
    /\ pc = "start"
    /\ \E cfg \in SharedConfigs :
         LET r == constructor(cfg, clock)
         IN  /\ pc' = IF r.thrown = NoError THEN "built" ELSE "failed"
             /\ biom' = IF r.thrown = NoError THEN r.obj ELSE NewObject
             /\ thrown' = r.thrown
             /\ last' = [ op |-> "new", field |-> "", value |-> Undefined, cfg |-> cfg ]
    /\ before' = biom
    /\ nops' = 0
    /\ UNCHANGED << clock, other, heap >>

\* other = new Biom(cfg), before or after the first table and the pushes
ConstructOther ==
    /\ other.pc = "none"
    /\ \E cfg \in SharedConfigs :
         LET r == constructor(cfg, clock)
         IN  /\ other' = [ pc  |-> IF r.thrown = NoError THEN "built" ELSE "failed",
                           obj |-> IF r.thrown = NoError THEN r.obj ELSE NewObject,
                           cfg |-> cfg ]
             /\ thrown' = r.thrown
             /\ last' = [ op |-> "new other", field |-> "", value |-> Undefined, cfg |-> cfg ]
    /\ UNCHANGED << pc, biom, before, nops, clock, heap >>

\* biom.f.push(v): the getter returns the array object that the field
\* holds, and the push adds v to that object
Push ==
    /\ pc = "built"
    /\ nops < MaxPushes
    /\ \E f \in ArrayFields : \E v \in { Integer(1) } :
         /\ heap' = [ heap EXCEPT ![Get(biom, f).ref] = Append(@, v) ]
         /\ last' = [ op |-> "push", field |-> f, value |-> v, cfg |-> NoConfig ]
    /\ thrown' = NoError
    /\ before' = biom
    /\ nops' = nops + 1
    /\ UNCHANGED << pc, biom, clock, other >>

NextShared == ConstructFirst \/ ConstructOther \/ Push

SpecShared == Init /\ [][NextShared]_vars

(***************************************************************************)
(* What the specification says of the fields: its error kinds, its         *)
(* vocabularies and its validation rules.                                  *)
(***************************************************************************)
IsText(v) == v.k = "string"
IsSequence(v) == v.k = "array"
IsAbsent(v) == v = Null

\* the error kind of what a call threw ("ok" when it threw nothing)
Kind(e) ==
    CASE e.name = "none" -> "ok"
      [] e.name = "TypeError" -> "TypeMismatch"
      [] e.name = "Error" /\ e.message = "shape does not contain exactly two elements"
           -> "ArityViolation"
      [] e.name = "Error" /\ e.message = "shape does not contain non-negative integers"
           -> "DomainViolation"
      [] e.name = "Error" /\ e.message \in
           { "type must be part of the controlled vocabulary",
             "matrix_type must be part of the controlled vocabulary: \"dense\" or \"sparse\"",
             "matrix_element_type must be part of the controlled vocabulary: \"int\", \"float\" or \"unicode\"" }
           -> "VocabularyViolation"
      [] OTHER -> "unknown"

EnumFields == { "type", "matrix_type", "matrix_element_type" }

Vocabulary(f) ==
    CASE f = "type" ->
           { Str("OTU table"), Str("Pathway table"), Str("Function table"),
             Str("Ortholog table"), Str("Gene table"), Str("Metabolite table"),
             Str("Taxon table") }
      [] f = "matrix_type" -> { Str("sparse"), Str("dense") }
      [] f = "matrix_element_type" -> { Str("int"), Str("float"), Str("unicode") }

IsNonNegativeInteger(e) == e.k = "number" /\ e.num % e.den = 0 /\ e.num >= 0

\* the outcome the specification gives to an assignment of v to shape
ShapeOutcome(v) ==
    IF ~IsSequence(v) THEN "TypeMismatch"
    ELSE IF Len(Elements(v.ref)) # 2 THEN "ArityViolation"
    ELSE IF \E i \in 1..2 : ~IsNonNegativeInteger(Elements(v.ref)[i]) THEN "DomainViolation"
    ELSE "ok"

\* the validator of the field f accepts v
Valid(f, v) ==
    CASE f \in EnumFields -> v \in Vocabulary(f)
      [] f = "shape" -> ShapeOutcome(v) = "ok"
      [] f \in { "id", "comment" } -> IsText(v) \/ IsAbsent(v)
      [] f \in { "format", "format_url", "generated_by", "date" } -> IsText(v)
      [] f \in { "rows", "columns", "data" } -> IsSequence(v)

\* the constructor accepts what cfg gives for f: nothing, a valid value, or
\* the null that asks for the date to be stamped
Accepted(cfg, f) ==
    cfg[f] = Undefined \/ Valid(f, cfg[f]) \/ (f = "date" /\ cfg[f] = Null)

\* the fields that the constructor assigns before the field f
Position(f) == CHOOSE i \in 1..Len(Order) : Order[i] = f
Preceding(f) == { Order[j] : j \in 1..(Position(f) - 1) }

\* every value that cfg supplies passes the validator of its field
ValidConfig(cfg) == \A f \in Fields : cfg[f] = Undefined \/ Valid(f, cfg[f])

\* the default the specification documents for the field f is what v is
IsDocumentedDefault(f, v) ==
    CASE f \in { "id", "comment" } -> IsAbsent(v)
      [] f = "format" -> v = Str("Biological Observation Matrix 1.0.0")
      [] f = "format_url" -> v = Str("http://biom-format.org")
      [] f = "type" -> v = Str("OTU table")
      [] f = "generated_by" -> v = Str("biojs-io-biom v0.1.0")
      [] f \in { "rows", "columns", "data" } -> IsSequence(v) /\ Elements(v.ref) = << >>
      [] f = "matrix_type" -> v = Str("sparse")
      [] f = "matrix_element_type" -> v = Str("float")
      [] f = "shape" -> IsSequence(v) /\ Elements(v.ref) = << Integer(0), Integer(0) >>
      [] f = "date" -> IsText(v)

(***************************************************************************)
(* The claims.                                                             *)
(***************************************************************************)
\* the last call was the assignment of last.value to the field last.field
Assigned == last.op = "set"
\* the last call was new Biom(last.cfg)
Constructed == last.op = "new"

\* every read accessor returns on this what it returns on that
SameReads(this, that) == \A f \in Fields : Get(this, f) = Get(that, f)

\* C1: an assignment of a value that the validator of the field rejects
\* signals an error and leaves the table as it was: every one of the
\* thirteen read accessors returns what it returned before the assignment.
C1_FailedAssignmentLeavesTable ==
    (Assigned /\ ~Valid(last.field, last.value)) =>
        /\ thrown # NoError
        /\ pc = "built"
        /\ SameReads(biom, before)

\* C1 happens: a table whose type is not the default one has refused a text
\* that is outside the vocabulary of type
C1_Witness ==
    /\ Assigned /\ last.field = "type" /\ last.value = Str("dense")
    /\ thrown # NoError
    /\ get_type(biom) = Str("Gene table")

\* C2: in every state that a successful construction and any assignments,
\* successful or failed, lead to, the value stored in each field passes the
\* validator of that field.
C2_StoredValuesAreValid ==
    pc = "built" => \A f \in Fields : Valid(f, Get(biom, f))

\* C2 happens: a constructed table has been assigned a new matrix_type
C2_Witness ==
    /\ pc = "built" /\ Assigned /\ last.field = "matrix_type"
    /\ thrown = NoError
    /\ get_matrix_type(biom) = Str("dense")

\* C3: for type, matrix_type and matrix_element_type, the assignment of a
\* member of the vocabulary succeeds and the field then reads as that
\* member, the assignment of a text that is no member fails with
\* VocabularyViolation, and the assignment of what is no text fails with
\* TypeMismatch.
C3_EnumAssignment ==
    (Assigned /\ last.field \in EnumFields) =>
        /\ last.value \in Vocabulary(last.field) =>
              thrown = NoError /\ Get(biom, last.field) = last.value
        /\ (IsText(last.value) /\ last.value \notin Vocabulary(last.field)) =>
              Kind(thrown) = "VocabularyViolation"
        /\ ~IsText(last.value) => Kind(thrown) = "TypeMismatch"

\* C3 happens: a text of another vocabulary has been refused as matrix_type
C3_Witness ==
    /\ Assigned /\ last.field = "matrix_type" /\ last.value = Str("int")
    /\ Kind(thrown) = "VocabularyViolation"

\* C4: shape is accepted, by an assignment or by the constructor, exactly
\* when it is a sequence of two non-negative integers; otherwise the error is
\* TypeMismatch for what is no sequence, else ArityViolation for a length
\* other than two, else DomainViolation.  (The constructor reaches shape
\* when the fields it assigns before shape were accepted, and succeeds when
\* data and comment, which follow, are accepted too.)
C4_ShapeOutcome ==
    /\ (Assigned /\ last.field = "shape") =>
          /\ Kind(thrown) = ShapeOutcome(last.value)
          /\ thrown = NoError => get_shape(biom) = last.value
    /\ Constructed =>
          LET shape == IF last.cfg.shape = Undefined
                       THEN Arr("DEFAULT_BIOM.shape") ELSE last.cfg.shape
          IN  /\ pc = "built" => ShapeOutcome(shape) = "ok" /\ get_shape(biom) = shape
              /\ ((\A f \in Preceding("shape") : Accepted(last.cfg, f))
                     /\ ShapeOutcome(shape) # "ok") =>
                    Kind(thrown) = ShapeOutcome(shape)
              /\ ((\A f \in Fields \ {"shape"} : Accepted(last.cfg, f))
                     /\ ShapeOutcome(shape) = "ok") =>
                    pc = "built"

\* C4 happens: the constructor has refused the shape (2, -1)
C4_Witness ==
    /\ Constructed /\ last.cfg.shape = Arr("[2,-1]")
    /\ pc = "failed" /\ Kind(thrown) = "DomainViolation"

\* C5: a table constructed from a configuration whose every value passes the
\* validator of its field reads, for each field, as the value supplied, and
\* for each field left out as the documented default.
C5_ConstructionRoundTrip ==
    (Constructed /\ ValidConfig(last.cfg)) =>
        /\ pc = "built"
        /\ \A f \in Fields :
              IF last.cfg[f] # Undefined
              THEN Get(biom, f) = last.cfg[f]
              ELSE IsDocumentedDefault(f, Get(biom, f))

\* C5 happens: a table was constructed with an empty format and a shape
C5_Witness ==
    /\ Constructed /\ pc = "built"
    /\ last.cfg.format = Str("") /\ last.cfg.shape = Arr("[2,3]")

\* C6: the constructor stamps the date with the current time, as a text,
\* when date is left out or null; it stores a text given as date as it is;
\* and it fails, with TypeMismatch when it comes to assign the date, for a
\* date that is neither a text nor null.
C6_ConstructionDate ==
    Constructed =>
        LET date == last.cfg.date
            others == \A f \in Fields \ {"date"} : Accepted(last.cfg, f)
        IN  /\ date \in { Undefined, Null } =>
                 /\ others => pc = "built"
                 /\ pc = "built" =>
                       IsText(get_date(biom)) /\ get_date(biom) = Str(toISOString(clock))
            /\ IsText(date) =>
                 /\ others => pc = "built"
                 /\ pc = "built" => get_date(biom) = date
            /\ (date \notin { Undefined, Null } /\ ~IsText(date)) =>
                 /\ pc = "failed"
                 /\ (\A f \in Preceding("date") : Accepted(last.cfg, f)) =>
                       Kind(thrown) = "TypeMismatch"

\* C6 happens: a table was constructed with null for date, and is stamped
C6_Witness ==
    /\ Constructed /\ pc = "built" /\ last.cfg.date = Null
    /\ get_date(biom) = Str("1970-01-01T00:00:00.001Z")

\* C7: the assignment of null succeeds for id and for comment, which then
\* read as null, and fails with TypeMismatch for format, format_url,
\* generated_by and date; for all six the assignment of a text succeeds and
\* that of what is neither a text nor null fails with TypeMismatch.
C7_TextFieldAssignment ==
    (Assigned /\ last.field \in { "id", "comment", "format", "format_url",
                                  "generated_by", "date" }) =>
        /\ IsAbsent(last.value) =>
              IF last.field \in { "id", "comment" }
              THEN thrown = NoError /\ Get(biom, last.field) = Null
              ELSE Kind(thrown) = "TypeMismatch"
        /\ IsText(last.value) =>
              thrown = NoError /\ Get(biom, last.field) = last.value
        /\ (~IsText(last.value) /\ ~IsAbsent(last.value)) =>
              Kind(thrown) = "TypeMismatch"

\* C7 happens: a comment that was a text has been assigned null
C7_Witness ==
    /\ Assigned /\ last.field = "comment" /\ last.value = Null
    /\ thrown = NoError
    /\ IsText(get_comment(before)) /\ get_comment(biom) = Null

\* an element of a sparse data: (row_index, column_index, value)
IsTriple(e) == IsSequence(e) /\ Len(Elements(e.ref)) = 3
\* a row of a dense data: a sequence of n values
IsRowOf(e, n) == IsSequence(e) /\ Len(Elements(e.ref)) = n

\* C8: in every state of a constructed table matrix_type describes the
\* encoding of data: every element of a sparse data is a triple, and a dense
\* data is shape[0] rows of shape[1] values each.
C8_MatrixTypeDescribesData ==
    pc = "built" =>
        LET data  == Elements(get_data(biom).ref)
            shape == Elements(get_shape(biom).ref)
        IN  /\ get_matrix_type(biom) = Str("sparse") =>
                 \A i \in 1..Len(data) : IsTriple(data[i])
            /\ get_matrix_type(biom) = Str("dense") =>
                 /\ Len(data) = shape[1].num
                 /\ \A i \in 1..Len(data) : IsRowOf(data[i], shape[2].num)

\* C9, as claimed: format never reads as the empty text, nor as absent.
C9_FormatIsNonEmptyText ==
    pc = "built" => IsText(get_format(biom)) /\ get_format(biom) # Str("")

\* C9, amended: format always reads as a text, which may be empty, and
\* never as absent.
C9_FormatIsText ==
    pc = "built" => IsText(get_format(biom)) /\ ~IsAbsent(get_format(biom))

\* C9 happens: the format of a constructed table is the empty text
C9_Witness ==
    pc = "built" /\ get_format(biom) = Str("")

\* C10: the assignment of a value that the validator of the field accepts
\* succeeds, the field then reads as that value and the twelve other fields
\* read as before; the assignment of the value a field holds leaves the
\* whole table as it was.
C10_AssignmentFrame ==
    (Assigned /\ Valid(last.field, last.value)) =>
        /\ thrown = NoError
        /\ Get(biom, last.field) = last.value
        /\ \A g \in Fields \ {last.field} : Get(biom, g) = Get(before, g)
        /\ Get(before, last.field) = last.value => biom = before

\* C10 happens: columns has been assigned the value it held
C10_Witness ==
    /\ Assigned /\ last.field = "columns" /\ thrown = NoError
    /\ get_columns(before) = last.value
    /\ get_columns(biom) = Arr("[2,3]")

\* the error kind the specification gives to the refusal of v for the field f
RefusalKind(f, v) ==
    CASE f = "shape" -> ShapeOutcome(v)
      [] f \in EnumFields -> IF IsText(v) THEN "VocabularyViolation" ELSE "TypeMismatch"
      [] OTHER -> "TypeMismatch"

\* the fields for which cfg gives what the constructor may not accept
Refused(cfg) == { f \in Fields : ~Accepted(cfg, f) }
\* the first of them in the order of the assignments
FirstRefused(cfg) ==
    CHOOSE f \in Refused(cfg) : \A g \in Refused(cfg) : Position(f) <= Position(g)

\* C11: the construction succeeds if and only if every value supplied passes
\* the validator of its field (a null date counts as no date); otherwise it
\* fails with the error kind of the first refused field in the order of the
\* assignments and yields no table.
C11_ConstructionValidates ==
    Constructed =>
        IF Refused(last.cfg) = {}
        THEN pc = "built" /\ thrown = NoError
        ELSE /\ pc = "failed"
             /\ biom = NewObject
             /\ Kind(thrown) = RefusalKind(FirstRefused(last.cfg),
                                           last.cfg[FirstRefused(last.cfg)])

\* the outcome the specification gives to the assignment of v to the field
\* f: a function of f and v, in which no field of the table occurs
OutcomeOf(f, v) == IF Valid(f, v) THEN "ok" ELSE RefusalKind(f, v)

\* C12: the outcome of an assignment, success or the kind of the error, is
\* decided by the field and the value alone: in whatever state the table
\* is, the assignment of v to f ends as OutcomeOf(f, v) says.  No rule
\* across fields is enforced: a sequence is accepted as rows, columns or data
\* whatever shape and matrix_type are.
C12_OutcomeDependsOnValueOnly ==
    Assigned =>
        /\ Kind(thrown) = OutcomeOf(last.field, last.value)
        /\ (last.field \in { "rows", "columns", "data" } /\ IsSequence(last.value)) =>
              thrown = NoError /\ Get(biom, last.field) = last.value

\* C12 happens: a table whose shape is (2, 3) has accepted three rows
C12_Witness ==
    /\ Assigned /\ last.field = "rows" /\ last.value = Arr("[0,1,5]")
    /\ thrown = NoError
    /\ get_shape(biom) = Arr("[2,3]") /\ get_rows(biom) = Arr("[0,1,5]")

\* C13: tables share no mutable state through their defaults.  Whatever is
\* changed in place in an array that a read accessor of one table returned,
\* the arrays of DEFAULT_BIOM hold what they were written with, another
\* table reads as the documented default for each of rows, columns, data and
\* shape that it was constructed without, and a valid configuration still
\* constructs a table.
C13_DefaultsAreNotShared ==
    /\ \A ref \in DefaultRefs : Elements(ref) = ArrayLiteral(ref)
    /\ other.pc = "built" =>
          \A f \in ArrayFields :
              other.cfg[f] = Undefined => IsDocumentedDefault(f, Get(other.obj, f))
    /\ (other.pc # "none" /\ ValidConfig(other.cfg)) => other.pc = "built"

=============================================================================
